---- MODULE Spec2Model ----
(***************************************************************************)
(* Session-authenticated web application: the account store of            *)
(* database.py and the request handlers of main.py.                       *)
(*                                                                         *)
(* Strings the code manipulates (usernames, which register strips) are     *)
(* sequences of Unicode code points; strings it only compares or stores    *)
(* (passwords, digests, messages) are TLA+ strings.                        *)
(*                                                                         *)
(* Handlers are coroutines: a handler runs without interruption from one   *)
(* awaited store call to the next, so each action below is one such        *)
(* stretch, and requests of different clients interleave at the awaits.    *)
(* A client issues its requests one at a time and its session cookie is    *)
(* rewritten by each response.  Requests are served once a process has     *)
(* completed its start-up (lifespan); later process starts run init_db     *)
(* again, interleaved with the requests.  Of the store's failures only the *)
(* unique-constraint conflict is modelled.                                 *)
(***************************************************************************)
EXTENDS Integers, Sequences, FiniteSets, TLC

\* ---------------------------------------------------------------- bounds
\* The most a counter reaches, and the most external events (requests sent,
\* process restarts) a behaviour holds.
MaxCount == 2
MaxEvents == 4

\* Two browsers, each with its own session cookie.
Clients == {1, 2}

\* ------------------------------------------------------------- constants
None == "None"
NoUser == [id |-> 0, username |-> <<>>]

\* "admin" and "barista", as code points.
admin == <<97, 100, 109, 105, 110>>
barista == <<98, 97, 114, 105, 115, 116, 97>>

DEFAULT_USERS == << <<admin, "admin123">>, <<barista, "coffee42">> >>

BASE_NAV_ITEMS == <<"home", "catalog", "about", "login", "register">>

\* The messages (Russian string literals in main.py), named by their meaning.
FlashLogin == "flash: logged in"
FlashRegister == "flash: registered"
FlashLogout == "flash: logged out"
ErrLogin == "error: wrong username or password"
ErrMismatch == "error: passwords do not match"
ErrEmpty == "error: username must not be empty"
ErrExists == "error: a user with this name already exists"
ErrCreate == "error: could not create the user"

\* ---------------------------------------------------------------- inputs
\* "admin", " b\f" (space, b, form feed), "b", and a blank name made of a
\* space and a no-break space.
UsernameInputs == {admin, <<32, 98, 12>>, <<98>>, <<32, 160>>}
PasswordInputs == {"admin123", "secret123"}
Pages == {"home", "catalog", "about"}

\* ------------------------------------------------------- pure functions
\* hashlib.sha256(password.encode("utf-8")).hexdigest()
hash_password(password) ==
    CASE password = "admin123" ->
           "240be518fabd2724ddb6f04eeb1da5967448d7e831c08c8fa822809f74c720a9"
      [] password = "coffee42" ->
           "75ad287cae4c29535c747b15a4054f7f2b89f4fc4b0030c65c21e59f810711d2"
      [] password = "secret123" ->
           "fcf730b6d95236ecd3c9fc2d92d7b6b2bb061514961aec041d6c7a7192f592e4"

RECURSIVE lstrip(_)
RECURSIVE rstrip(_)

\* str.strip() without argument removes the characters str.isspace() accepts:
\* the code points of Unicode whitespace.
IsSpace(ch) ==
    \/ ch \in {9, 10, 11, 12, 13, 28, 29, 30, 31, 32, 133, 160, 5760}
    \/ ch \in 8192..8202
    \/ ch \in {8232, 8233, 8239, 8287, 12288}

lstrip(s) == IF s # <<>> /\ IsSpace(Head(s)) THEN lstrip(Tail(s)) ELSE s

rstrip(s) ==
    IF s # <<>> /\ IsSpace(s[Len(s)]) THEN rstrip(SubSeq(s, 1, Len(s) - 1)) ELSE s

strip(s) == rstrip(lstrip(s))

\* The usernames an account can have: the defaults and the trimmed inputs.
AccountNames ==
    ({DEFAULT_USERS[i][1] : i \in 1..Len(DEFAULT_USERS)}
        \cup {strip(u) : u \in UsernameInputs}) \ {<<>>}

\* ----------------------------------------------------------------- state
VARIABLES
    users,      \* the users table: rows in rowid order
    seed,       \* init_db's seeding session
    session,    \* per client: the session cookie's contents
    req,        \* per client: the request in flight and its locals
    last,       \* the response most recently sent
    logged,     \* per username: the "Incremented coffee count" log records
    budget      \* how many more requests and restarts the behaviour may hold

vars == <<users, seed, session, req, last, logged, budget>>

\* ------------------------------------------------------------ the store
NoRow == [id |-> 0, username |-> <<>>, password_hash |-> "", coffee_count |-> 0]

\* class User: one row of the users table.
User(id, username, password_hash, coffee_count) ==
    [id |-> id, username |-> username, password_hash |-> password_hash,
     coffee_count |-> coffee_count]

\* The rows other connections see: all but the rows the seeding transaction has
\* written and not yet committed.
Committed == SubSeq(users, 1, Len(users) - seed.tx)

\* The store's write lock is held from a transaction's first write to its commit.
\* Only the seeding transaction (an INSERT flushed before a later SELECT) holds
\* it across an await; every other write commits in the step that makes it.
WriteLockFree == seed.tx = 0

\* select(User).where(User.username == username), scalar_one_or_none()
SelectByUsername(rows, username) ==
    IF \E i \in 1..Len(rows) : rows[i].username = username
    THEN rows[CHOOSE i \in 1..Len(rows) : rows[i].username = username]
    ELSE NoRow

\* session.get(User, user_id)
SelectById(rows, user_id) ==
    IF \E i \in 1..Len(rows) : rows[i].id = user_id
    THEN rows[CHOOSE i \in 1..Len(rows) : rows[i].id = user_id]
    ELSE NoRow

\* A users table whose username column lacks unique=True.
UniqueViolation_unconstrained(rows, username) == FALSE

\* username = Column(String(64), unique=True, ...): the INSERT that the
\* constraint rejects with IntegrityError.
UniqueViolation(rows, username) ==
    \E i \in 1..Len(rows) : rows[i].username = username

\* id = Column(Integer, primary_key=True): the next rowid.
NextId(rows) == IF rows = <<>> THEN 1 ELSE rows[Len(rows)].id + 1

\* The INSERT of a User(username, password_hash, coffee_count=0).
InsertUser(rows, username, password_hash) ==
    Append(rows, User(NextId(rows), username, password_hash, 0))

\* user.coffee_count = <value>, flushed as UPDATE ... WHERE id = user_id
UpdateCount(rows, user_id, value) ==
    [i \in 1..Len(rows) |->
        IF rows[i].id = user_id THEN [rows[i] EXCEPT !.coffee_count = value]
        ELSE rows[i]]

\* A lookup that finds nobody.
get_user_by_username_nobody(username) == NoRow

get_user_by_username(username) == SelectByUsername(Committed, username)

\* An authenticate_user that does not compare the password's digest.
authenticate_user_unchecked(username, password) ==
    LET user == SelectByUsername(Committed, username) IN
    IF user = NoRow THEN NoUser
    ELSE [id |-> user.id, username |-> user.username]

\* authenticate_user: the identity, or NoUser for None.
authenticate_user(username, password) ==
    LET user == SelectByUsername(Committed, username) IN
    IF user = NoRow THEN NoUser
    ELSE IF hash_password(password) # user.password_hash THEN NoUser
    ELSE [id |-> user.id, username |-> user.username]

\* -------------------------------------------------- session and responses
EmptySession ==
    [user |-> NoUser, flash |-> None, login_error |-> None, register_error |-> None]

Idle == [pc |-> "idle", username |-> <<>>, password |-> "", uid |-> 0, count |-> 0]

\* A nav that ignores the identity.
nav_items_static(user) == BASE_NAV_ITEMS

\* render_page: the nav for the session's identity.
nav_items(user) ==
    LET Kept(id) == ~(user # NoUser /\ id \in {"login", "register"})
        nav == SelectSeq(BASE_NAV_ITEMS, Kept)
    IN  IF user # NoUser THEN Append(nav, "logout") ELSE nav

\* A render that reads the flash with get instead of pop.
pop_flash_kept(sess) == sess

\* request.session.pop("flash", None): the session left behind.
pop_flash(sess) == [sess EXCEPT !.flash = None]

\* request.session.pop("login_error", None)
pop_login_error(sess) == [sess EXCEPT !.login_error = None]

\* request.session.pop("register_error", None)
pop_register_error(sess) == [sess EXCEPT !.register_error = None]

\* request.session.pop("user", None)
pop_user(sess) == [sess EXCEPT !.user = NoUser]

\* render_page: the data handed to the template for a session and a context.
render_page(c, active_page, sess, error) ==
    [client |-> c, handler |-> active_page, status |-> 200, location |-> None,
     nav |-> nav_items(sess.user), user |-> sess.user, flash |-> sess.flash,
     error |-> error]

\* RedirectResponse(request.url_for(endpoint), status_code=303)
RedirectResponse(c, handler, endpoint) ==
    [client |-> c, handler |-> handler, status |-> 303, location |-> endpoint,
     nav |-> <<>>, user |-> NoUser, flash |-> None, error |-> None]

\* Response(status_code=418)
TeapotResponse(c) ==
    [client |-> c, handler |-> "coffee", status |-> 418, location |-> None,
     nav |-> <<>>, user |-> NoUser, flash |-> None, error |-> None]

\* A process whose start-up is complete takes a request of a client that has
\* none in flight.
Accepts(c) ==
    /\ seed.ready
    /\ req[c].pc = "idle"
    /\ budget > 0
    /\ budget' = budget - 1

\* ---------------------------------------------------------------- pages
\* root, catalog, about
Page(c, page) ==
    /\ Accepts(c)
    /\ last' = render_page(c, page, session[c], None)
    /\ session' = [session EXCEPT ![c] = pop_flash(@)]
    /\ UNCHANGED <<users, seed, req, logged>>

\* GET /login
login_form(c) ==
    /\ Accepts(c)
    /\ LET error == session[c].login_error
           sess == pop_login_error(session[c])
       IN  /\ last' = render_page(c, "login", sess, error)
           /\ session' = [session EXCEPT ![c] = pop_flash(sess)]
    /\ UNCHANGED <<users, seed, req, logged>>

\* GET /register
register_form(c) ==
    /\ Accepts(c)
    /\ LET error == session[c].register_error
           sess == pop_register_error(session[c])
       IN  /\ last' = render_page(c, "register", sess, error)
           /\ session' = [session EXCEPT ![c] = pop_flash(sess)]
    /\ UNCHANGED <<users, seed, req, logged>>

\* ---------------------------------------------------------------- login
\* POST /login
login_submit(c, username, password) ==
    /\ Accepts(c)
    /\ LET user == authenticate_user(username, password) IN
       IF user # NoUser
       THEN /\ session' = [session EXCEPT ![c].user = user, ![c].flash = FlashLogin]
            /\ last' = RedirectResponse(c, "login_submit", "home")
       ELSE /\ session' = [session EXCEPT ![c].login_error = ErrLogin]
            /\ last' = RedirectResponse(c, "login_submit", "login")
    /\ UNCHANGED <<users, seed, req, logged>>

\* GET /logout
logout(c) ==
    /\ Accepts(c)
    /\ session' = [session EXCEPT ![c] = [pop_user(@) EXCEPT !.flash = FlashLogout]]
    /\ last' = RedirectResponse(c, "logout", "home")
    /\ UNCHANGED <<users, seed, req, logged>>

\* ------------------------------------------------------------- register
\* A create_user whose commit never reports the conflict.
create_user_raises_never(rows, username) == FALSE

\* A create_user that returns without committing the row.
create_user_uncommitted(rows, username, password) == rows

\* create_user: whether session.commit() raises IntegrityError.
create_user_raises(rows, username) == UniqueViolation(rows, username)

\* create_user: the table after the commit.
create_user(rows, username, password) ==
    InsertUser(rows, username, hash_password(password))

\* POST /register, up to the answer of get_user_by_username.
register_submit(c, username, password, password_confirm) ==
    /\ Accepts(c)
    /\ LET name == strip(username) IN
       IF password # password_confirm
       THEN /\ session' = [session EXCEPT ![c].register_error = ErrMismatch]
            /\ last' = RedirectResponse(c, "register_submit", "register")
            /\ UNCHANGED req
       ELSE IF name = <<>>
       THEN /\ session' = [session EXCEPT ![c].register_error = ErrEmpty]
            /\ last' = RedirectResponse(c, "register_submit", "register")
            /\ UNCHANGED req
       ELSE IF get_user_by_username(name) # NoRow
       THEN /\ session' = [session EXCEPT ![c].register_error = ErrExists]
            /\ last' = RedirectResponse(c, "register_submit", "register")
            /\ UNCHANGED req
       ELSE /\ req' = [req EXCEPT ![c] =
                         [Idle EXCEPT !.pc = "create_user", !.username = name,
                                      !.password = password]]
            /\ UNCHANGED <<session, last>>
    /\ UNCHANGED <<users, seed, logged>>

\* POST /register, from the call of create_user to the response.
register_create(c) ==
    /\ req[c].pc = "create_user"
    /\ WriteLockFree
    /\ IF create_user_raises(users, req[c].username)
       THEN /\ session' = [session EXCEPT ![c].register_error = ErrCreate]
            /\ last' = RedirectResponse(c, "register_submit", "register")
            /\ UNCHANGED users
       ELSE LET rows == create_user(users, req[c].username, req[c].password)
                new_user == rows[Len(rows)]
            IN  /\ users' = rows
                /\ session' = [session EXCEPT
                                 ![c].user = [id |-> new_user.id,
                                              username |-> new_user.username],
                                 ![c].flash = FlashRegister]
                /\ last' = RedirectResponse(c, "register_submit", "home")
    /\ req' = [req EXCEPT ![c] = Idle]
    /\ UNCHANGED <<seed, logged, budget>>

\* --------------------------------------------------------------- coffee
\* increment_coffee_count: the value written for the value read.
incremented(count) == count + 1

\* logging.info("Incremented coffee count for user %s", username)
log_increment(log, username) == [log EXCEPT ![username] = @ + 1]

\* GET /coffee, up to the answer of session.get(User, user_id).
coffee(c) ==
    /\ Accepts(c)
    /\ LET user_session == session[c].user
           user == SelectById(Committed, user_session.id)
       IN  IF user_session = NoUser
           THEN /\ last' = TeapotResponse(c)
                /\ UNCHANGED <<req, logged>>
           ELSE IF user = NoRow
           THEN /\ last' = TeapotResponse(c)
                /\ logged' = log_increment(logged, user_session.username)
                /\ UNCHANGED req
           ELSE /\ user.coffee_count < MaxCount
                /\ req' = [req EXCEPT ![c] =
                             [Idle EXCEPT !.pc = "commit", !.uid = user.id,
                                          !.username = user_session.username,
                                          !.count = user.coffee_count]]
                /\ UNCHANGED <<last, logged>>
    /\ UNCHANGED <<users, seed, session>>

\* GET /coffee, from the commit of increment_coffee_count to the response.
coffee_commit(c) ==
    /\ req[c].pc = "commit"
    /\ WriteLockFree
    /\ users' = UpdateCount(users, req[c].uid, incremented(req[c].count))
    /\ logged' = log_increment(logged, req[c].username)
    /\ last' = TeapotResponse(c)
    /\ req' = [req EXCEPT ![c] = Idle]
    /\ UNCHANGED <<seed, session, budget>>

\* -------------------------------------------------------------- seeding
SeedStart == [pc |-> "select", i |-> 1, pending |-> <<>>, tx |-> 0, ready |-> FALSE]

\* The flush of the rows session.add() queued: whether every INSERT is accepted.
RECURSIVE FlushOk(_, _)
FlushOk(rows, pending) ==
    \/ pending = <<>>
    \/ /\ ~UniqueViolation(rows, Head(pending).username)
       /\ FlushOk(InsertUser(rows, Head(pending).username, Head(pending).password_hash),
                  Tail(pending))

\* The table after that flush.
RECURSIVE FlushRows(_, _)
FlushRows(rows, pending) ==
    IF pending = <<>> THEN rows
    ELSE FlushRows(InsertUser(rows, Head(pending).username, Head(pending).password_hash),
                   Tail(pending))

\* init_db raising IntegrityError: the transaction is rolled back, start-up fails.
SeedAbort ==
    /\ users' = Committed
    /\ seed' = [seed EXCEPT !.pc = "idle", !.i = 1, !.pending = <<>>, !.tx = 0]

\* lifespan: a process start (a restart, another worker) runs init_db again.
init_db ==
    /\ budget > 0
    /\ budget' = budget - 1
    /\ seed.pc = "idle"
    /\ seed' = [SeedStart EXCEPT !.ready = seed.ready]
    /\ UNCHANGED <<users, session, req, last, logged>>

\* init_db, one turn of the loop over DEFAULT_USERS: the SELECT (which first
\* flushes the row added in the turn before) and the session.add.
seed_select ==
    /\ seed.pc = "select"
    /\ IF ~FlushOk(users, seed.pending)
       THEN SeedAbort
       ELSE LET rows == FlushRows(users, seed.pending)
                username == DEFAULT_USERS[seed.i][1]
                raw_password == DEFAULT_USERS[seed.i][2]
                exists == SelectByUsername(rows, username)
            IN  /\ users' = rows
                /\ seed' = [seed EXCEPT
                     !.tx = @ + Len(seed.pending),
                     !.pending = IF exists # NoRow THEN <<>>
                                 ELSE << [username |-> username,
                                          password_hash |-> hash_password(raw_password)] >>,
                     !.i = IF seed.i = Len(DEFAULT_USERS) THEN 1 ELSE @ + 1,
                     !.pc = IF seed.i = Len(DEFAULT_USERS) THEN "commit" ELSE "select"]
    /\ UNCHANGED <<session, req, last, logged, budget>>

\* init_db: await session.commit()
seed_commit ==
    /\ seed.pc = "commit"
    /\ IF ~FlushOk(users, seed.pending)
       THEN SeedAbort
       ELSE /\ users' = FlushRows(users, seed.pending)
            /\ seed' = [seed EXCEPT !.pc = "idle", !.pending = <<>>, !.tx = 0,
                                    !.ready = TRUE]
    /\ UNCHANGED <<session, req, last, logged, budget>>

\* ------------------------------------------------------- specification
NoResponse ==
    [client |-> 0, handler |-> "none", status |-> 0, location |-> None,
     nav |-> <<>>, user |-> NoUser, flash |-> None, error |-> None]

Init ==
    /\ users = <<>>
    /\ seed = SeedStart
    /\ session = [c \in Clients |-> EmptySession]
    /\ req = [c \in Clients |-> Idle]
    /\ last = NoResponse
    /\ logged = [u \in AccountNames |-> 0]
    /\ budget = MaxEvents

Next ==
    \/ init_db
    \/ seed_select
    \/ seed_commit
    \/ \E c \in Clients, page \in Pages : Page(c, page)
    \/ \E c \in Clients : login_form(c)
    \/ \E c \in Clients : register_form(c)
    \/ \E c \in Clients, username \in UsernameInputs, password \in PasswordInputs :
          login_submit(c, username, password)
    \/ \E c \in Clients, username \in UsernameInputs,
          password \in PasswordInputs, password_confirm \in PasswordInputs :
          register_submit(c, username, password, password_confirm)
    \/ \E c \in Clients : register_create(c)
    \/ \E c \in Clients : logout(c)
    \/ \E c \in Clients : coffee(c)
    \/ \E c \in Clients : coffee_commit(c)

Spec == Init /\ [][Next]_vars

\* The same program in behaviours of one more event.
InitLonger ==
    /\ users = <<>>
    /\ seed = SeedStart
    /\ session = [c \in Clients |-> EmptySession]
    /\ req = [c \in Clients |-> Idle]
    /\ last = NoResponse
    /\ logged = [u \in AccountNames |-> 0]
    /\ budget = MaxEvents + 1

SpecLonger == InitLonger /\ [][Next]_vars

\* ================================================================ claims
Range(seq) == {seq[i] : i \in 1..Len(seq)}

\* The accounts: the committed rows.
Accounts == Range(Committed)

UsernameHeld(username) == \E a \in Accounts : a.username = username

\* A step in which client c's register request, past its existence check,
\* calls create_user and answers.
RegisterFinishes(c) == req[c].pc = "create_user" /\ req'[c].pc = "idle"

\* The successful outcome of client c's register request for the name and
\* password it holds: one row more, the session logged in as it, a flash, a
\* 303 to home.
RegisterSucceeds(c) ==
    /\ Len(users') = Len(users) + 1
    /\ SubSeq(users', 1, Len(users)) = users
    /\ users'[Len(users')].username = req[c].username
    /\ users'[Len(users')].coffee_count = 0
    /\ \A i \in 1..Len(users) : users[i].username # req[c].username
    /\ session'[c].user = [id |-> users'[Len(users')].id, username |-> req[c].username]
    /\ session'[c].flash = FlashRegister
    /\ last' = RedirectResponse(c, "register_submit", "home")

\* A step that takes a register request of client c: it answers it, or goes on
\* to create_user.
RegisterTaken(c) ==
    /\ budget' = budget - 1
    /\ seed' = seed
    /\ req[c].pc = "idle"
    /\ \/ req'[c].pc = "create_user"
       \/ last'.client = c /\ last'.handler = "register_submit"

\* A register request with matching passwords and a trimmed username that is
\* non-empty and held by no account goes on to create_user with that name.
RegisterPassesCheck(c) ==
    RegisterTaken(c) =>
        \A username \in UsernameInputs, password \in PasswordInputs :
            ( /\ strip(username) # <<>>
              /\ ~UsernameHeld(strip(username))
              /\ register_submit(c, username, password, password) )
            => /\ req'[c].pc = "create_user"
               /\ req'[c].username = strip(username)
               /\ req'[c].password = password
               /\ users' = users

\* C1 as stated: a register request that found its non-empty trimmed username
\* free when it started, with matching passwords, always succeeds, whatever
\* other requests are in flight.
C1_Original ==
    [][\A c \in Clients :
          RegisterPassesCheck(c) /\ (RegisterFinishes(c) => RegisterSucceeds(c))]_vars

\* C1 amended: such a request succeeds whenever its username is still held by
\* no account at the moment its insert executes.
C1_Amended ==
    [][\A c \in Clients :
          /\ RegisterPassesCheck(c)
          /\ (RegisterFinishes(c) /\ ~UsernameHeld(req[c].username))
                => RegisterSucceeds(c)]_vars

\* A registration of b (code point 98) has succeeded: the account b exists with counter 0
\* and the registering session is logged in as it.
C1_Witness ==
    /\ last.handler = "register_submit"
    /\ last.location = "home"
    /\ session[last.client].user.username = <<98>>
    /\ session[last.client].flash = FlashRegister
    /\ \E a \in Accounts : a.username = <<98>> /\ a.coffee_count = 0
                           /\ a.id = session[last.client].user.id

\* The recovery of client c's register request from the store's rejection of
\* its insert, with the message it leaves in the session.
RegisterRecovers(c, message) ==
    /\ last' = RedirectResponse(c, "register_submit", "register")
    /\ session'[c] = [session[c] EXCEPT !.register_error = message]
    /\ users' = users

\* C6 as stated: when the store rejects the insert with a duplicate-key
\* conflict, register recovers with the same duplicate-username message as in
\* the existing-username case.
C6_Original ==
    [][\A c \in Clients :
          (RegisterFinishes(c) /\ UsernameHeld(req[c].username))
              => RegisterRecovers(c, ErrExists)]_vars

\* C6 amended: register recovers with a 303 redirect to the register form, no
\* account created and the identity unchanged, and the session error is the
\* could-not-create message, not the duplicate-username one.
C6_Amended ==
    [][\A c \in Clients :
          (RegisterFinishes(c) /\ UsernameHeld(req[c].username))
              => RegisterRecovers(c, ErrCreate) /\ ErrCreate # ErrExists]_vars

\* A register request has just been answered after the store rejected its
\* insert: its username is held by an account that is not the session's.
C6_Witness ==
    /\ last = RedirectResponse(last.client, "register_submit", "register")
    /\ last.client \in Clients
    /\ session[last.client].register_error = ErrCreate
    /\ session[last.client].user.username # <<98>>
    /\ UsernameHeld(<<98>>)

\* C8: no two rows of the users table have the same username.
C8_UniqueUsernames ==
    \A i, j \in 1..Len(users) : users[i].username = users[j].username => i = j

\* Two registrations of b both passed the existence check; one created the
\* account and the other was rejected by the store.
C8_Witness ==
    \E c, d \in Clients :
        /\ c # d
        /\ session[c].user.username = <<98>>
        /\ session[c].flash = FlashRegister
        /\ session[d].register_error = ErrCreate
        /\ Cardinality({i \in 1..Len(users) : users[i].username = <<98>>}) = 1

\* A step that takes a request and answers it at once: it is no process start
\* and it leaves the requests in flight as they are.
AnsweredAtOnce == budget' = budget - 1 /\ seed' = seed /\ req' = req

\* Such a step for a request of client c, answered by `handler`.
Answered(c, handler) ==
    AnsweredAtOnce /\ last'.client = c /\ last'.handler = handler

\* Such a step for a GET of client c, answered with a rendered page.
PageSent(c) == AnsweredAtOnce /\ last'.client = c /\ last'.status = 200

\* C2: a register request with matching passwords whose trimmed username
\* belongs to an account is answered by a 303 to the register form, with the
\* duplicate-username error in the session and the users table unchanged.
C2_DuplicateRejected ==
    [][\A c \in Clients :
          RegisterTaken(c) =>
              \A username \in UsernameInputs, password \in PasswordInputs :
                  ( /\ UsernameHeld(strip(username))
                    /\ register_submit(c, username, password, password) )
                  => /\ last' = RedirectResponse(c, "register_submit", "register")
                     /\ session'[c] = [session[c] EXCEPT !.register_error = ErrExists]
                     /\ req'[c] = Idle
                     /\ users' = users]_vars

\* The account b was registered and a later registration of b has just been
\* refused as a duplicate.
C2_Witness ==
    /\ last = RedirectResponse(last.client, "register_submit", "register")
    /\ last.client \in Clients
    /\ session[last.client].register_error = ErrExists
    /\ \E a \in Accounts : a.username = <<98>>
    /\ Len(users) = 3
    /\ budget = MaxEvents - 2

\* C3: login succeeds exactly when an account has the given username and the
\* digest of the given password; every failing login gives the same response
\* and the same session change.
C3_Login ==
    [][\A c \in Clients :
          Answered(c, "login_submit") =>
              \A username \in UsernameInputs, password \in PasswordInputs :
                  login_submit(c, username, password) =>
                      IF \E a \in Accounts :
                            /\ a.username = username
                            /\ a.password_hash = hash_password(password)
                      THEN /\ \E a \in Accounts :
                                /\ a.username = username
                                /\ session'[c] =
                                     [session[c] EXCEPT
                                        !.user = [id |-> a.id, username |-> a.username],
                                        !.flash = FlashLogin]
                           /\ last' = RedirectResponse(c, "login_submit", "home")
                           /\ users' = users
                      ELSE /\ session'[c] = [session[c] EXCEPT !.login_error = ErrLogin]
                           /\ last' = RedirectResponse(c, "login_submit", "login")
                           /\ users' = users]_vars

\* One session has logged in as admin and the other has failed to.
C3_Witness ==
    \E c, d \in Clients :
        /\ session[c].user = [id |-> 1, username |-> admin]
        /\ session[c].flash = FlashLogin
        /\ session[d].login_error = ErrLogin
        /\ session[d].user = NoUser
        /\ last = RedirectResponse(d, "login_submit", "login")

\* C5: logout leaves the session without identity, an identity appears only by
\* a successful login or register, and every page rendered for a session
\* without identity has login and register and no logout in its nav, while one
\* rendered for a session with identity has neither login nor register and
\* ends with logout.
C5_LogoutNav ==
    [][\A c \in Clients :
          /\ Answered(c, "logout") => session'[c].user = NoUser
          /\ (session[c].user = NoUser /\ session'[c].user # NoUser) =>
                /\ last'.client = c
                /\ last'.handler \in {"login_submit", "register_submit"}
                /\ last'.location = "home"
          /\ PageSent(c) =>
                IF session[c].user = NoUser
                THEN /\ "logout" \notin Range(last'.nav)
                     /\ {"login", "register"} \subseteq Range(last'.nav)
                ELSE /\ {"login", "register"} \cap Range(last'.nav) = {}
                     /\ last'.nav # <<>>
                     /\ last'.nav[Len(last'.nav)] = "logout"]_vars

\* After three requests of one client (the other has sent none): it registered
\* b, logged out, and was sent a page showing the logout flash and a nav with
\* login and without logout.
C5_Witness ==
    /\ budget = MaxEvents - 3
    /\ last.status = 200
    /\ last.flash = FlashLogout
    /\ "login" \in Range(last.nav)
    /\ "logout" \notin Range(last.nav)
    /\ \E a \in Accounts : a.username = <<98>>
    /\ \E d \in Clients : d # last.client /\ session[d] = EmptySession

\* C7: a rendered page shows the flash the session holds and leaves the
\* session without it; GET /login and GET /register do the same with
\* login_error and register_error; a flash is put into a session only by a
\* login, register or logout, and taken out only by a rendered page.
C7_ReadOnce ==
    [][\A c \in Clients :
          /\ PageSent(c) =>
                /\ last'.flash = session[c].flash
                /\ session'[c].flash = None
          /\ (PageSent(c) /\ last'.handler = "login") =>
                /\ last'.error = session[c].login_error
                /\ session'[c].login_error = None
          /\ (PageSent(c) /\ last'.handler = "register") =>
                /\ last'.error = session[c].register_error
                /\ session'[c].register_error = None
          /\ (session'[c].flash # session[c].flash /\ session'[c].flash # None) =>
                /\ last'.client = c
                /\ last'.status = 303
                /\ last'.location = "home"
          /\ (session[c].flash # None /\ session'[c].flash = None) => PageSent(c)
          /\ (session[c].login_error # None /\ session'[c].login_error = None) =>
                PageSent(c) /\ last'.handler = "login"
          /\ (session[c].register_error # None /\ session'[c].register_error = None) =>
                PageSent(c) /\ last'.handler = "register"]_vars

\* GET /login has just shown a login error and a login flash, and the session
\* holds neither any more.
C7_Witness ==
    /\ last.status = 200
    /\ last.handler = "login"
    /\ last.error = ErrLogin
    /\ last.flash = FlashLogin
    /\ session[last.client].flash = None
    /\ session[last.client].login_error = None

\* A step in which client c's coffee request commits its increment and answers.
CoffeeFinishes(c) == req[c].pc = "commit" /\ req'[c].pc = "idle"

\* C4 as stated: a coffee request of a session with an identity raises that
\* account's counter by exactly 1 and leaves every other counter unchanged, and
\* one of a session without identity leaves every counter unchanged.
C4_Claim ==
    [][\A c \in Clients :
          /\ CoffeeFinishes(c) =>
                /\ Len(users') = Len(users)
                /\ \A i \in 1..Len(users) :
                      users'[i].coffee_count =
                          IF users[i].id = req[c].uid
                          THEN users[i].coffee_count + 1
                          ELSE users[i].coffee_count
          /\ (Answered(c, "coffee") /\ session[c].user = NoUser) => users' = users]_vars

\* C9 as stated: every account stays, with the same id, username and password
\* hash, and its counter never decreases.
C9_Claim ==
    [][\A i \in 1..Len(Committed) :
          /\ i <= Len(Committed')
          /\ Committed'[i].id = Committed[i].id
          /\ Committed'[i].username = Committed[i].username
          /\ Committed'[i].password_hash = Committed[i].password_hash
          /\ Committed'[i].coffee_count >= Committed[i].coffee_count]_vars

\* C10 as stated: once the coffee requests for an account have all completed,
\* its counter is higher by their number: with none in flight, it equals the
\* number of increments logged for the account.
C10_Claim ==
    \A a \in Accounts :
        (\A c \in Clients : ~(req[c].pc = "commit" /\ req[c].uid = a.id))
            => a.coffee_count = logged[a.username]

====
